---- MODULE Spec2Model ----
(***************************************************************************)
(* Model of twisted.python.logger._json: the JSON event codec (the hooks   *)
(* objectSaveHook / objectLoadHook, eventAsJSON / eventFromJSON) and the   *)
(* stream framer eventsFromJSONLogFile.                                    *)
(*                                                                         *)
(* Text is a sequence of code points, bytes a sequence of integers 0..255. *)
(* A Python value is a record [t |-> <type>, v |-> <payload>]; a dict is   *)
(* the sequence of its <<key, value>> items in insertion order.            *)
(***************************************************************************)
EXTENDS Integers, Sequences, FiniteSets, TLC

\* ------------------------------------------------------------------ text
\* Code points the codec and the framer treat specially.
LF == 10
RS == 30

classUuidKey == <<95, 95, 99, 108, 97, 115, 115, 95, 117, 117, 105, 100, 95, 95>>  \* '__class_uuid__'
unpersistableKey == <<117, 110, 112, 101, 114, 115, 105, 115, 116, 97, 98, 108, 101>>  \* 'unpersistable'
typeKey == <<116, 121, 112, 101>>  \* 'type'
moduleKey == <<95, 95, 109, 111, 100, 117, 108, 101, 95, 95>>  \* '__module__'
nameKey == <<95, 95, 110, 97, 109, 101, 95, 95>>  \* '__name__'
levelNameKey == <<110, 97, 109, 101>>  \* 'name'
LogLevelUUIDText == <<48, 50, 69, 53, 57, 52, 56, 54, 45, 70, 50, 52, 68, 45, 52, 54, 65, 68, 45, 56, 50, 50, 52, 45, 51, 65, 67, 68, 70, 50, 65, 53, 55, 51, 50, 65>>  \* '02E59486-F24D-46AD-8224-3ACDF2A5732A'
FailureUUIDText == <<69, 55, 54, 56, 56, 55, 69, 50, 45, 50, 48, 69, 68, 45, 52, 57, 66, 70, 45, 65, 56, 70, 56, 45, 66, 65, 50, 53, 67, 67, 53, 56, 54, 70, 50, 68>>  \* 'E76887E2-20ED-49BF-A8F8-BA25CC586F2D'
thisModule == <<116, 119, 105, 115, 116, 101, 100, 46, 112, 121, 116, 104, 111, 110, 46, 108, 111, 103, 103, 101, 114, 46, 95, 106, 115, 111, 110>>  \* 'twisted.python.logger._json'
trueLit == <<116, 114, 117, 101>>  \* 'true'
falseLit == <<102, 97, 108, 115, 101>>  \* 'false'
nullLit == <<110, 117, 108, 108>>  \* 'null'

\* The names of the LogLevel constants (twisted.python.logger._levels).
LogLevelNames ==
    { <<100, 101, 98, 117, 103>>,                      \* 'debug'
      <<105, 110, 102, 111>>,                          \* 'info'
      <<119, 97, 114, 110>>,                           \* 'warn'
      <<101, 114, 114, 111, 114>>,                     \* 'error'
      <<99, 114, 105, 116, 105, 99, 97, 108>> }        \* 'critical'

\* ---------------------------------------------------------------- values
PyStr(s) == [t |-> "str", v |-> s]
PyInt(n) == [t |-> "int", v |-> n]
PyBool(b) == [t |-> "bool", v |-> b]
None == [t |-> "null", v |-> 0]
PyList(xs) == [t |-> "list", v |-> xs]
PyDict(items) == [t |-> "dict", v |-> items]
PyBytes(bs) == [t |-> "bytes", v |-> bs]
\* A NamedConstant: the container it belongs to and its name.
NamedConstant(container, name) == [t |-> "constant", v |-> <<container, name>>]
\* A class object, as far as this module reads it: __module__ and __name__.
Class(module, name) == [t |-> "class", v |-> <<module, name>>]
\* A Failure: its instance __dict__ (which holds the "type" attribute).
Failure(state) == [t |-> "Failure", v |-> state]
\* Any other object (object(), a set, an exception instance, ...).
Opaque(id) == [t |-> "object", v |-> id]

\* An operation's outcome: a value, or the exception it raised.
Ok(val) == [err |-> "", val |-> val]
Raise(exc) == [err |-> exc, val |-> None]

\* ----------------------------------------------------------------- dicts
RECURSIVE DictIndex(_, _, _)
\* The position of key in items at or after i, 0 when absent.
DictIndex(items, key, i) ==
    IF i > Len(items) THEN 0
    ELSE IF items[i][1] = key THEN i
    ELSE DictIndex(items, key, i + 1)

DictHas(items, key) == DictIndex(items, key, 1) # 0
DictGet(items, key) == items[DictIndex(items, key, 1)][2]
\* d[key] = val: an existing key keeps its position, a new one is appended.
DictSet(items, key, val) ==
    LET i == DictIndex(items, key, 1)
    IN  IF i = 0 THEN Append(items, <<key, val>>)
        ELSE [items EXCEPT ![i] = <<key, val>>]

\* ------------------------------------------------------------------ UUID
IsHexDigit(c) == (c >= 48 /\ c <= 57) \/ (c >= 65 /\ c <= 70) \/ (c >= 97 /\ c <= 102)
LowerHex(c) == IF c >= 65 /\ c <= 70 THEN c + 32 ELSE c
RemoveDashes(text) == SelectSeq(text, LAMBDA c : c # 45)

\* uuid.UUID(hex): the dashes are dropped, 32 hexadecimal digits are required
\* (ValueError otherwise) and the value is their number, kept here as the
\* 32 lower-case digits.  A hex argument that is no text has no replace().
UUID(hex) ==
    IF hex.t = "null" THEN Raise("TypeError")
    ELSE IF hex.t # "str" THEN Raise("AttributeError")
    ELSE LET digits == RemoveDashes(hex.v)
         IN  IF Len(digits) # 32 THEN Raise("ValueError")
             ELSE IF \E i \in 1..32 : ~IsHexDigit(digits[i]) THEN Raise("ValueError")
             ELSE Ok([i \in 1..32 |-> LowerHex(digits[i])])

\* str(uuid): 8-4-4-4-12 lower-case digits.
UUIDStr(u) ==
    SubSeq(u, 1, 8) \o <<45>> \o SubSeq(u, 9, 12) \o <<45>> \o SubSeq(u, 13, 16)
        \o <<45>> \o SubSeq(u, 17, 20) \o <<45>> \o SubSeq(u, 21, 32)

\* -------------------------------------------------------------- registry
\* Failure.__getstate__: the failure's state mapping (a copy of its __dict__).
FailureGetState(failure) == failure.v

failureAsJSON(failure) ==
    LET type == DictGet(failure.v, typeKey)
    IN  PyDict(DictSet(FailureGetState(failure), typeKey,
                       PyDict(<< <<moduleKey, type.v[1]>>, <<nameKey, type.v[2]>> >>)))

\* A class synthesized from the name alone.
SynthesizeType_NameOnly(typeInfo) ==
    IF typeInfo.t # "dict" THEN Raise("TypeError")
    ELSE IF ~DictHas(typeInfo.v, nameKey) THEN Raise("KeyError")
    ELSE Ok(Class(PyStr(thisModule), DictGet(typeInfo.v, nameKey)))

\* type(typeInfo["__name__"], (), typeInfo): a new class of that name whose
\* __module__ is the one typeInfo gives, or else the calling module's.
SynthesizeType(typeInfo) ==
    IF typeInfo.t # "dict" THEN Raise("TypeError")
    ELSE IF ~DictHas(typeInfo.v, nameKey) THEN Raise("KeyError")
    ELSE IF DictGet(typeInfo.v, nameKey).t # "str" THEN Raise("TypeError")
    ELSE Ok(Class(IF DictHas(typeInfo.v, moduleKey)
                      THEN DictGet(typeInfo.v, moduleKey)
                      ELSE PyStr(thisModule),
                  DictGet(typeInfo.v, nameKey)))

failureFromJSON(failureDict) ==
    IF ~DictHas(failureDict.v, typeKey) THEN Raise("KeyError")
    ELSE LET type == SynthesizeType(DictGet(failureDict.v, typeKey))
         IN  IF type.err # "" THEN type
             ELSE Ok(Failure(DictSet(failureDict.v, typeKey, type.val)))

isLogLevel(level) ==
    /\ level.t = "constant"
    /\ level.v[1] = "LogLevel"
    /\ level.v[2] \in LogLevelNames

logLevelAsJSON(level) == PyDict(<< <<levelNameKey, PyStr(level.v[2])>> >>)

\* getattr(LogLevel, level["name"], None)
logLevelFromJSON(level) ==
    IF ~DictHas(level.v, levelNameKey) THEN Raise("KeyError")
    ELSE LET name == DictGet(level.v, levelNameKey)
         IN  IF name.t # "str" THEN Raise("TypeError")
             ELSE IF name.v \in LogLevelNames
                 THEN Ok(NamedConstant("LogLevel", name.v))
             ELSE Ok(None)

isFailure(o) == o.t = "Failure"

\* classInfo: (predicate, uuid, saver, loader), in registration order.
classInfo ==
    << [predicate |-> "isLogLevel", uuid |-> UUID(PyStr(LogLevelUUIDText)).val,
        saver |-> "logLevelAsJSON", loader |-> "logLevelFromJSON"],
       [predicate |-> "isFailure", uuid |-> UUID(PyStr(FailureUUIDText)).val,
        saver |-> "failureAsJSON", loader |-> "failureFromJSON"] >>

Call1(f, x) ==
    CASE f = "isLogLevel" -> isLogLevel(x)
      [] f = "isFailure" -> isFailure(x)
      [] f = "logLevelAsJSON" -> logLevelAsJSON(x)
      [] f = "failureAsJSON" -> failureAsJSON(x)
      [] f = "logLevelFromJSON" -> logLevelFromJSON(x)
      [] f = "failureFromJSON" -> failureFromJSON(x)

\* uuidToLoader: the registry's loaders keyed by uuid; the position of the
\* entry whose uuid is u, 0 when there is none.
uuidToLoader(u) ==
    IF \E i \in 1..Len(classInfo) : classInfo[i].uuid = u
        THEN CHOOSE i \in 1..Len(classInfo) :
                 /\ classInfo[i].uuid = u
                 /\ \A j \in (i + 1)..Len(classInfo) : classInfo[j].uuid # u
        ELSE 0

\* A lookup that falls back to the mapping itself.
MissingLoader_Passthrough(aDict) == Ok(aDict)

\* uuidToLoader[...] for a uuid that is no key of it.
MissingLoader(aDict) == Raise("KeyError")

\* uuidToLoader[u](aDict)
LoadWith(u, aDict) ==
    IF u.err # "" THEN u
    ELSE IF uuidToLoader(u.val) = 0 THEN MissingLoader(aDict)
    ELSE Call1(classInfo[uuidToLoader(u.val)].loader, aDict)

objectLoadHook(aDict) ==
    IF DictHas(aDict.v, classUuidKey)
        THEN LoadWith(UUID(DictGet(aDict.v, classUuidKey)), aDict)
        ELSE Ok(aDict)

\* A hook that gives up on what it cannot serialize.
Unpersistable_Null == None

\* {"unpersistable": True}
Unpersistable == PyDict(<< <<unpersistableKey, PyBool(TRUE)>> >>)

RECURSIVE SaveWith(_, _)
\* The loop of objectSaveHook from entry i on.
SaveWith(pythonObject, i) ==
    IF i > Len(classInfo) THEN Unpersistable
    ELSE IF Call1(classInfo[i].predicate, pythonObject)
        THEN PyDict(DictSet(Call1(classInfo[i].saver, pythonObject).v,
                            classUuidKey, PyStr(UUIDStr(classInfo[i].uuid))))
    ELSE SaveWith(pythonObject, i + 1)

objectSaveHook(pythonObject) == SaveWith(pythonObject, 1)

\* ----------------------------------------------------------- json.dumps
HexDigit(d) == IF d < 10 THEN 48 + d ELSE 87 + d
\* A control character written as it is.
UnicodeEscape_Raw(c) == <<c>>

\* "\uXXXX"
UnicodeEscape(c) ==
    <<92, 117, HexDigit((c \div 4096) % 16), HexDigit((c \div 256) % 16),
      HexDigit((c \div 16) % 16), HexDigit(c % 16)>>

\* An escape table without the short escapes of the control characters.
EscapeChar_NoControls(c) ==
    CASE c = 34 -> <<92, 34>>
      [] c = 92 -> <<92, 92>>
      [] OTHER -> IF c >= 127 THEN UnicodeEscape(c) ELSE <<c>>

\* json.encoder.ESCAPE_ASCII: the quote, the backslash and everything outside
\* ' '..'~' are escaped.
EscapeChar(c) ==
    CASE c = 34 -> <<92, 34>>
      [] c = 92 -> <<92, 92>>
      [] c = 10 -> <<92, 110>>
      [] c = 13 -> <<92, 114>>
      [] c = 9 -> <<92, 116>>
      [] c = 8 -> <<92, 98>>
      [] c = 12 -> <<92, 102>>
      [] OTHER -> IF c >= 32 /\ c <= 126 THEN <<c>> ELSE UnicodeEscape(c)

RECURSIVE EscapeFrom(_, _)
EscapeFrom(text, i) ==
    IF i > Len(text) THEN <<>>
    ELSE EscapeChar(text[i]) \o EscapeFrom(text, i + 1)

EncodeString(text) == <<34>> \o EscapeFrom(text, 1) \o <<34>>

RECURSIVE Digits(_)
Digits(n) == IF n < 10 THEN <<48 + n>> ELSE Digits(n \div 10) \o <<48 + (n % 10)>>
IntText(n) == IF n < 0 THEN <<45>> \o Digits(0 - n) ELSE Digits(n)

\* The default hook eventAsJSON hands to dumps (Python 3 branch): bytes are
\* decoded with the charmap codec, one code point per byte; anything else
\* goes to objectSaveHook.
default(unencodable) ==
    IF unencodable.t = "bytes" THEN PyStr(unencodable.v)
    ELSE objectSaveHook(unencodable)

RECURSIVE dumps(_)
RECURSIVE DumpItems(_, _)
RECURSIVE DumpElements(_, _)
\* "key": value pairs from item i on, joined by ", ".
DumpItems(items, i) ==
    IF i > Len(items) THEN <<>>
    ELSE (IF i > 1 THEN <<44, 32>> ELSE <<>>)
         \o EncodeString(items[i][1]) \o <<58, 32>> \o dumps(items[i][2])
         \o DumpItems(items, i + 1)

DumpElements(xs, i) ==
    IF i > Len(xs) THEN <<>>
    ELSE (IF i > 1 THEN <<44, 32>> ELSE <<>>) \o dumps(xs[i]) \o DumpElements(xs, i + 1)

\* dumps(o, default=default, skipkeys=True) for text-keyed mappings.
dumps(o) ==
    CASE o.t = "str" -> EncodeString(o.v)
      [] o.t = "int" -> IntText(o.v)
      [] o.t = "bool" -> IF o.v THEN trueLit ELSE falseLit
      [] o.t = "null" -> nullLit
      [] o.t = "list" -> <<91>> \o DumpElements(o.v, 1) \o <<93>>
      [] o.t = "dict" -> <<123>> \o DumpItems(o.v, 1) \o <<125>>
      [] OTHER -> dumps(default(o))

\* flattenEvent(event): events without a log_format field are left as they are.
flattenEvent(event) == event

eventAsJSON(event) == dumps(flattenEvent(event))

\* ----------------------------------------------------------- json.loads
\* A parse outcome: the error raised ("" for none), the value, and the
\* position after it.
Parsed(val, pos) == [err |-> "", val |-> val, pos |-> pos]
ParseError(exc) == [err |-> exc, val |-> None, pos |-> 0]

IsWhitespace(c) == c = 32 \/ c = 9 \/ c = 10 \/ c = 13
IsDigit(c) == c >= 48 /\ c <= 57
HexValue(c) == IF c <= 57 THEN c - 48 ELSE IF c <= 70 THEN c - 55 ELSE c - 87

RECURSIVE SkipWhitespace(_, _)
SkipWhitespace(s, i) ==
    IF i <= Len(s) /\ IsWhitespace(s[i]) THEN SkipWhitespace(s, i + 1) ELSE i

\* The character a backslash escape stands for, 0 when it is no escape.
Unescape(c) ==
    CASE c = 34 -> 34
      [] c = 92 -> 92
      [] c = 47 -> 47
      [] c = 98 -> 8
      [] c = 102 -> 12
      [] c = 110 -> 10
      [] c = 114 -> 13
      [] c = 116 -> 9
      [] OTHER -> 0

RECURSIVE ScanString(_, _, _)
\* json.decoder.scanstring (strict): i is the position after the opening quote.
ScanString(s, i, acc) ==
    IF i > Len(s) THEN ParseError("ValueError")
    ELSE IF s[i] = 34 THEN Parsed(acc, i + 1)
    ELSE IF s[i] < 32 THEN ParseError("ValueError")
    ELSE IF s[i] # 92 THEN ScanString(s, i + 1, Append(acc, s[i]))
    ELSE IF i + 1 > Len(s) THEN ParseError("ValueError")
    ELSE IF s[i + 1] = 117
        THEN IF i + 5 > Len(s) \/ \E k \in 2..5 : ~IsHexDigit(s[i + k])
                 THEN ParseError("ValueError")
             ELSE ScanString(s, i + 6,
                      Append(acc, HexValue(s[i + 2]) * 4096 + HexValue(s[i + 3]) * 256
                                  + HexValue(s[i + 4]) * 16 + HexValue(s[i + 5])))
    ELSE IF Unescape(s[i + 1]) = 0 THEN ParseError("ValueError")
    ELSE ScanString(s, i + 2, Append(acc, Unescape(s[i + 1])))

RECURSIVE ScanDigits(_, _, _)
ScanDigits(s, i, n) ==
    IF i <= Len(s) /\ IsDigit(s[i]) THEN ScanDigits(s, i + 1, 10 * n + (s[i] - 48))
    ELSE Parsed(PyInt(n), i)

\* json.scanner NUMBER_RE, integers only: -?(0|[1-9][0-9]*)
ScanNumber(s, i) ==
    LET neg == s[i] = 45
        j == IF neg THEN i + 1 ELSE i
    IN  IF j > Len(s) \/ ~IsDigit(s[j]) THEN ParseError("ValueError")
        ELSE LET n == IF s[j] = 48 THEN Parsed(PyInt(0), j + 1) ELSE ScanDigits(s, j, 0)
             IN  IF neg THEN Parsed(PyInt(0 - n.val.v), n.pos) ELSE n

StartsWith(s, i, word) ==
    /\ i + Len(word) - 1 <= Len(s)
    /\ \A k \in 1..Len(word) : s[i + k - 1] = word[k]

RECURSIVE ScanOnce(_, _)
RECURSIVE JSONObjectItems(_, _, _)
RECURSIVE JSONArrayElements(_, _, _)

\* The end of an object: dict(pairs), then the object hook.
Hooked(hooked, pos) ==
    IF hooked.err # "" THEN ParseError(hooked.err) ELSE Parsed(hooked.val, pos)

FinishObject(items, pos) == Hooked(objectLoadHook(PyDict(items)), pos)

\* json.decoder.JSONObject from a key on: i is the position of its quote.
JSONObjectItems(s, i, items) ==
    IF i > Len(s) \/ s[i] # 34 THEN ParseError("ValueError")
    ELSE LET key == ScanString(s, i + 1, <<>>)
         IN  IF key.err # "" THEN key
             ELSE LET colon == SkipWhitespace(s, key.pos)
                  IN  IF colon > Len(s) \/ s[colon] # 58 THEN ParseError("ValueError")
                      ELSE LET value == ScanOnce(s, SkipWhitespace(s, colon + 1))
                           IN  IF value.err # "" THEN value
                               ELSE LET next == SkipWhitespace(s, value.pos)
                                        pairs == DictSet(items, key.val, value.val)
                                    IN  IF next > Len(s) THEN ParseError("ValueError")
                                        ELSE IF s[next] = 125 THEN FinishObject(pairs, next + 1)
                                        ELSE IF s[next] # 44 THEN ParseError("ValueError")
                                        ELSE JSONObjectItems(s, SkipWhitespace(s, next + 1), pairs)

\* json.decoder.JSONArray from an element on.
JSONArrayElements(s, i, xs) ==
    LET value == ScanOnce(s, i)
    IN  IF value.err # "" THEN value
        ELSE LET next == SkipWhitespace(s, value.pos)
             IN  IF next > Len(s) THEN ParseError("ValueError")
                 ELSE IF s[next] = 93 THEN Parsed(PyList(Append(xs, value.val)), next + 1)
                 ELSE IF s[next] # 44 THEN ParseError("ValueError")
                 ELSE JSONArrayElements(s, SkipWhitespace(s, next + 1), Append(xs, value.val))

\* json.scanner.scan_once at position i.
ScanOnce(s, i) ==
    IF i > Len(s) THEN ParseError("ValueError")
    ELSE CASE s[i] = 34 -> LET text == ScanString(s, i + 1, <<>>)
                           IN  IF text.err # "" THEN text ELSE Parsed(PyStr(text.val), text.pos)
           [] s[i] = 123 -> LET j == SkipWhitespace(s, i + 1)
                            IN  IF j <= Len(s) /\ s[j] = 125 THEN FinishObject(<<>>, j + 1)
                                ELSE JSONObjectItems(s, j, <<>>)
           [] s[i] = 91 -> LET j == SkipWhitespace(s, i + 1)
                           IN  IF j <= Len(s) /\ s[j] = 93 THEN Parsed(PyList(<<>>), j + 1)
                               ELSE JSONArrayElements(s, j, <<>>)
           [] StartsWith(s, i, nullLit) -> Parsed(None, i + 4)
           [] StartsWith(s, i, trueLit) -> Parsed(PyBool(TRUE), i + 4)
           [] StartsWith(s, i, falseLit) -> Parsed(PyBool(FALSE), i + 5)
           [] s[i] = 45 \/ IsDigit(s[i]) -> ScanNumber(s, i)
           [] OTHER -> ParseError("ValueError")

\* loads(text, object_hook=objectLoadHook): one value between whitespace.
\* JSONDecoder.decode: the value must be all of the text but whitespace.
WholeText(text, value) ==
    IF value.err # "" THEN Raise(value.err)
    ELSE IF SkipWhitespace(text, value.pos) # Len(text) + 1 THEN Raise("ValueError")
    ELSE Ok(value.val)

loadsText(text) == WholeText(text, ScanOnce(text, SkipWhitespace(text, 1)))

\* str.encode("utf-8") for code points below 2048.
RECURSIVE EncodeUTF8From(_, _)
EncodeUTF8From(text, i) ==
    IF i > Len(text) THEN <<>>
    ELSE (IF text[i] < 128 THEN <<text[i]>>
          ELSE <<192 + (text[i] \div 64), 128 + (text[i] % 64)>>)
         \o EncodeUTF8From(text, i + 1)

EncodeUTF8(text) ==
    IF \A i \in 1..Len(text) : text[i] < 128 THEN text ELSE EncodeUTF8From(text, 1)

RECURSIVE DecodeUTF8From(_, _, _)
\* bytes.decode("utf-8") for one- and two-byte sequences: UnicodeDecodeError
\* (a ValueError) on anything else.
DecodeUTF8From(data, i, acc) ==
    IF i > Len(data) THEN Ok(acc)
    ELSE IF data[i] < 128 THEN DecodeUTF8From(data, i + 1, Append(acc, data[i]))
    ELSE IF /\ data[i] >= 194 /\ data[i] <= 223 /\ i + 1 <= Len(data)
            /\ data[i + 1] >= 128 /\ data[i + 1] <= 191
        THEN DecodeUTF8From(data, i + 2,
                 Append(acc, (data[i] - 192) * 64 + (data[i + 1] - 128)))
    ELSE Raise("ValueError")

\* loads(data) for bytes: decoded as UTF-8, then parsed.
DecodeUTF8(data) ==
    IF \A i \in 1..Len(data) : data[i] < 128 THEN Ok(data)
    ELSE DecodeUTF8From(data, 1, <<>>)

loadsDecoded(text) == IF text.err # "" THEN text ELSE loadsText(text.val)

loadsBytes(data) == loadsDecoded(DecodeUTF8(data))

\* loads accepts text and (UTF-8) bytes.
loads(s) == IF s.t = "bytes" THEN loadsBytes(s.v) ELSE loadsText(s.v)

eventFromJSON(eventText) == loads(eventText)

\* ------------------------------------------------- jsonFileLogObserver
\* The text the observer writes for one event: u"\x1e{0}\n".
formatEvent(event) == <<RS>> \o eventAsJSON(event) \o <<LF>>

\* ----------------------------------------------- eventsFromJSONLogFile
\* What eventFromRecord(record) does: the event it returns (None for no
\* event), whether it reported the record with log.error, and the exception
\* it lets through ("" for none).
Returned(event) == [err |-> "", event |-> event, logged |-> FALSE]

\* A handler that catches nothing.
Caught_Nothing(exc) == FALSE

\* except ValueError:
Caught(exc) == exc = "ValueError"

\* try: return eventFromJSON(...) except ValueError: log.error(...)
TryEvent(loaded) ==
    IF loaded.err = "" THEN Returned(loaded.val)
    ELSE IF Caught(loaded.err) THEN [err |-> "", event |-> None, logged |-> TRUE]
    ELSE [err |-> loaded.err, event |-> None, logged |-> FALSE]

\* A test that takes any non-empty record.
Complete_AnyRecord(record) == Len(record) > 0

\* if record and record[-1] == 10
Complete(record) == Len(record) > 0 /\ record[Len(record)] = LF

eventFromRecord(record) ==
    IF Complete(record)
        THEN TryEvent(eventFromJSON(PyBytes(record)))
        ELSE Returned(None)

RECURSIVE NextSeparator(_, _, _)
\* The position of the first sep in data at or after i, Len(data) + 1 if none.
NextSeparator(data, sep, i) ==
    IF i > Len(data) \/ data[i] = sep THEN i ELSE NextSeparator(data, sep, i + 1)

RECURSIVE SplitFrom(_, _, _)
\* buffer.split(sep): the pieces between the separators, the last one included.
SplitFrom(data, sep, i) ==
    LET j == NextSeparator(data, sep, i)
    IN  IF j > Len(data) THEN <<SubSeq(data, i, Len(data))>>
        ELSE <<SubSeq(data, i, j - 1)>> \o SplitFrom(data, sep, j + 1)

Split(data, sep) == SplitFrom(data, sep, 1)

\* The generator's frame: the buffer, what it has yielded and reported so
\* far, whether it has finished, and the exception that ended it, if any.
Frame(buffer, events, errors, done, raised) ==
    [buffer |-> buffer, events |-> events, errors |-> errors,
     done |-> done, raised |-> raised]

NewFrame == Frame(<<>>, <<>>, <<>>, FALSE, "")

\* event = eventFromRecord(record); if event is not None: yield event
YieldEvent(frame, record, r) ==
    IF r.err # "" THEN [frame EXCEPT !.done = TRUE, !.raised = r.err]
    ELSE [frame EXCEPT
             !.events = IF r.event = None THEN @ ELSE Append(@, r.event),
             !.errors = IF r.logged THEN Append(@, record) ELSE @]

YieldFromRecord(frame, record) == YieldEvent(frame, record, eventFromRecord(record))

RECURSIVE YieldFromRecords(_, _, _)
\* for record in records[:-1]: ...
YieldFromRecords(frame, records, i) ==
    IF i >= Len(records) \/ frame.done THEN frame
    ELSE YieldFromRecords(YieldFromRecord(frame, records[i]), records, i + 1)

\* The major version of the interpreter that runs the module: 2 or 3.
VARIABLE python

\* newData.encode("utf-8"), called on whatever the read returned.  Text is
\* encoded.  Bytes have no encode() on Python 3; on Python 2 they are first
\* decoded as ASCII, which fails on any byte above 127.
EncodeNewData(newData) ==
    IF newData.t = "str" THEN Ok(EncodeUTF8(newData.v))
    ELSE IF python = 3 THEN Raise("AttributeError")
    ELSE IF \A i \in 1..Len(newData.v) : newData.v[i] < 128 THEN Ok(newData.v)
    ELSE Raise("UnicodeDecodeError")

\* The end-of-data branch without its break.
AtEndOfData_NoBreak(frame) == YieldFromRecord(frame, frame.buffer)

\* if not newData: ...; break
AtEndOfData(frame) ==
    [YieldFromRecord(frame, frame.buffer) EXCEPT !.done = TRUE]

\* A buffer that keeps the separator before the unfinished record.
Remainder_WithSeparator(records) == <<RS>> \o records[Len(records)]

\* A buffer that forgets the unfinished record.
Remainder_Dropped(records) == <<>>

\* buffer = records[-1]
Remainder(records) == records[Len(records)]

\* One turn of the while loop with newData = inFile.read(4096).
\* buffer = records[-1], unless an exception ended the loop over the records.
KeepRemainder(after, records) ==
    IF after.done THEN after ELSE [after EXCEPT !.buffer = Remainder(records)]

\* records = buffer.split(b"\x1e"), the loop over them and the new buffer.
SplitRecords(frame, records) ==
    KeepRemainder(YieldFromRecords(frame, records, 1), records)

\* buffer += newData.encode("utf-8"), and the rest of the turn.
ExtendBuffer(frame, encoded) ==
    IF encoded.err # "" THEN [frame EXCEPT !.done = TRUE, !.raised = encoded.err]
    ELSE SplitRecords(frame, Split(frame.buffer \o encoded.val, RS))

ReadStep(frame, newData) ==
    IF Len(newData.v) = 0 THEN AtEndOfData(frame)
    ELSE ExtendBuffer(frame, EncodeNewData(newData))

RECURSIVE Iterate(_, _, _)
\* list(eventsFromJSONLogFile(inFile)) for a source whose reads return
\* reads[1], reads[2], ... and then nothing.
Iterate(frame, reads, i) ==
    IF frame.done THEN frame
    ELSE IF i > Len(reads) THEN ReadStep(frame, PyStr(<<>>))
    ELSE Iterate(ReadStep(frame, reads[i]), reads, i + 1)

\* ================================================================ model
\* Bounds of the model.
MaxRecords == 3
MaxAround == 1
MaxWritten == 2

VARIABLES
    written,    \* what was written to the log file, item by item
    source,     \* the file's content, as the units inFile.read() returns
    pos,        \* how many units of source have been read
    buffer,     \* eventsFromJSONLogFile's buffer
    events,     \* the events yielded so far
    errors,     \* the records reported with log.error so far
    pc,         \* "AwaitingData", or "Exhausted" once the generator finished
    raised,     \* the exception that ended the generator, "" for none
    nreads,     \* non-empty reads so far: 0, 1, 2, or 3 for more than two
    lastRead,   \* what the last read returned: "none", "data" or "empty"
    sourceKind, \* what inFile.read() returns: "str" (text) or "bytes"
    phase,      \* codec runs: how far the run has gone
    subject,    \* codec runs: the value, mapping or event the run starts from
    saved,      \* codec runs: the encoding
    loaded,     \* codec runs: the outcome of decoding
    resaved,    \* codec runs: the encoding of the decoded value
    db,         \* the credentials checker: its kind and constructor arguments
    users,      \* InMemoryUsernamePasswordDatabaseDontUse.users
    file,       \* the credentials file: whether it exists, can be opened, its lines, its mtime
    credCache,  \* FilePasswordDB._credCache
    cacheTimestamp, \* FilePasswordDB._cacheTimestamp
    call        \* the last call made to the checker and how it ended

framerVars == <<written, source, pos, buffer, events, errors, pc, raised, nreads, lastRead,
                sourceKind, python>>
codecVars == <<phase, subject, saved, loaded, resaved>>
credVars == <<db, users, file, credCache, cacheTimestamp, call>>
vars == <<written, source, pos, buffer, events, errors, pc, raised, nreads, lastRead,
          sourceKind, python,
          phase, subject, saved, loaded, resaved,
          db, users, file, credCache, cacheTimestamp, call>>

\* ---------------------------------------------------------- log files
\* An item of a log file: its kind ("event": written by the observer;
\* "valid": other text that is one well-formed wire record; anything else:
\* not a well-formed record), the event it stands for, and its text.
Item(kind, event, text) == [kind |-> kind, event |-> event, text |-> text]
Written(event) == Item("event", event, formatEvent(event))

EventA == PyDict(<< <<(<<97>>), PyInt(1)>> >>)                 \* {"a": 1}
EventB == PyDict(<< <<(<<98>>), PyStr(<<LF, RS>>)>> >>)        \* {"b": "\n\x1e"}
\* An event that uses the codec's reserved key: {"__class_uuid__": "x"}
EventReserved == PyDict(<< <<classUuidKey, PyStr(<<120>>)>> >>)
\* A record of valid JSON with a raw non-ASCII character: RS ["e-acute"] LF
RawUnicode == Item("valid", PyList(<<PyStr(<<233>>)>>), <<RS, 91, 34, 233, 34, 93, LF>>)
\* A record that is not valid JSON: RS {] LF
Corrupt == Item("corrupt", None, <<RS, 123, 93, LF>>)
\* A record of well-formed JSON whose type tag no registry entry has:
\* RS {"__class_uuid__": "00000000-0000-0000-0000-000000000000"} LF
UnknownTag ==
    Item("unknownTag", None,
         <<RS>> \o dumps(PyDict(<< <<classUuidKey,
                                    PyStr([i \in 1..32 |-> 48])>> >>)) \o <<LF>>)

WellFormed(item) == item.kind \in {"event", "valid"}

RECURSIVE EventsOf(_, _)
\* The events of the well-formed items of a log file, in order.
EventsOf(items, i) ==
    IF i > Len(items) THEN <<>>
    ELSE (IF WellFormed(items[i]) THEN <<items[i].event>> ELSE <<>>)
         \o EventsOf(items, i + 1)

RECURSIVE ConcatText(_, _)
ConcatText(items, i) ==
    IF i > Len(items) THEN <<>> ELSE items[i].text \o ConcatText(items, i + 1)

LogFiles(items, n) == UNION { [1..k -> items] : k \in 0..n }

FramerItems == {Written(EventA), RawUnicode, Corrupt}

CodecIdle ==
    /\ phase = "idle"
    /\ subject = None
    /\ saved = None
    /\ loaded = Ok(None)
    /\ resaved = None

\* A credentials file, and the file no checker has been given.
File(exists, readable, lines, mtime) ==
    [exists |-> exists, readable |-> readable, lines |-> lines, mtime |-> mtime]
NoFile == File(FALSE, FALSE, <<>>, 0)

\* FilePasswordDB's class attributes: _credCache = None, _cacheTimestamp = 0.
NoCache == [built |-> FALSE, items |-> <<>>]

\* No call made yet.
NoCall ==
    [op |-> "none", username |-> <<>>, password |-> <<>>, plain |-> TRUE,
     how |-> "none", val |-> <<>>, exc |-> "", parsed |-> FALSE]

CredIdle ==
    /\ db = [kind |-> "none"]
    /\ users = <<>>
    /\ file = NoFile
    /\ credCache = NoCache
    /\ cacheTimestamp = 0
    /\ call = NoCall

\* A file holding the items of log, nothing read yet, whose reads return
\* text (kind "str") or its UTF-8 bytes (kind "bytes").
OpenSource(log, kind, version) ==
    /\ written = log
    /\ source = IF kind = "str" THEN ConcatText(log, 1) ELSE EncodeUTF8(ConcatText(log, 1))
    /\ sourceKind = kind
    /\ python = version
    /\ pos = 0
    /\ buffer = NewFrame.buffer
    /\ events = NewFrame.events
    /\ errors = NewFrame.errors
    /\ pc = "AwaitingData"
    /\ raised = NewFrame.raised
    /\ nreads = 0
    /\ lastRead = "none"

\* A text-mode file.
OpenLog(log) == OpenSource(log, "str", 3)

Init ==
    /\ \E log \in LogFiles(FramerItems, MaxRecords) : OpenLog(log)
    /\ CodecIdle
    /\ CredIdle

CurrentFrame == Frame(buffer, events, errors, pc = "Exhausted", raised)

\* The generator runs one turn of its loop on what the read returned.
Suspend(frame) ==
    /\ buffer' = frame.buffer
    /\ events' = frame.events
    /\ errors' = frame.errors
    /\ raised' = frame.raised
    /\ pc' = IF frame.done THEN "Exhausted" ELSE "AwaitingData"

Resume(newData) == Suspend(ReadStep(CurrentFrame, newData))

\* inFile.read(4096) returns the next n characters of the file.
ReadData ==
    /\ pc = "AwaitingData"
    /\ \E n \in 1..(Len(source) - pos) :
        /\ pos' = pos + n
        /\ Resume([t |-> sourceKind, v |-> SubSeq(source, pos + 1, pos + n)])
    /\ nreads' = IF nreads < 3 THEN nreads + 1 ELSE nreads
    /\ lastRead' = "data"
    /\ UNCHANGED <<written, source, sourceKind, python>>
    /\ UNCHANGED codecVars
    /\ UNCHANGED credVars

\* inFile.read(4096) returns nothing: the file is at its end.
ReadEmpty ==
    /\ pc = "AwaitingData"
    /\ pos = Len(source)
    /\ Resume([t |-> sourceKind, v |-> <<>>])
    /\ lastRead' = "empty"
    /\ UNCHANGED <<written, source, pos, nreads, sourceKind, python>>
    /\ UNCHANGED codecVars
    /\ UNCHANGED credVars

Next == ReadData \/ ReadEmpty

Spec == Init /\ [][Next]_vars

\* Log files with one record whose type tag is unknown, among valid ones.

InitTagged ==
    /\ \E before \in LogFiles({Written(EventA)}, MaxAround) :
       \E after \in LogFiles({Written(EventA)}, MaxAround) :
           OpenLog(before \o <<UnknownTag>> \o after)
    /\ CodecIdle
    /\ CredIdle

SpecTagged == InitTagged /\ [][Next]_vars

\* Log files read through a binary-mode file, on either interpreter.
BytesItems == {Written(EventA), RawUnicode}

InitBytes ==
    /\ \E log \in LogFiles(BytesItems, MaxRecords) :
       \E version \in {2, 3} : OpenSource(log, "bytes", version)
    /\ CodecIdle
    /\ CredIdle

SpecBytes == InitBytes /\ [][Next]_vars

\* Streams that are not what the observer writes: records cut short before
\* their line feed, and JSON lines that no record separator introduces.
Truncated == Item("truncated", None, <<RS>> \o eventAsJSON(EventA))
Unframed == Item("unframed", None, eventAsJSON(EventA) \o <<LF>>)

\* Bound of the ragged streams: the number of their items.
MaxPieces == 2

RaggedItems == {Written(EventA), Corrupt, Truncated, Unframed}

InitRagged ==
    /\ \E log \in LogFiles(RaggedItems, MaxPieces) : OpenLog(log)
    /\ CodecIdle
    /\ CredIdle

SpecRagged == InitRagged /\ [][Next]_vars

\* Log files written by jsonFileLogObserver.
\* {"n": [-12, true, null, "e-acute", {}]}
EventNested ==
    PyDict(<< <<(<<110>>), PyList(<<PyInt(-12), PyBool(TRUE), None, PyStr(<<233>>),
                                    PyDict(<<>>)>>)>> >>)

ObserverItems ==
    {Written(PyDict(<<>>)), Written(EventB), Written(EventNested), Written(EventReserved)}

InitObserver ==
    /\ \E log \in LogFiles(ObserverItems, MaxWritten) : OpenLog(log)
    /\ CodecIdle
    /\ CredIdle

SpecObserver == InitObserver /\ [][Next]_vars

\* ------------------------------------------------------------ the codec
\* Bound of the codec runs: the number of fields of an event.
MaxFields == 2

LogLevels == { NamedConstant("LogLevel", name) : name \in LogLevelNames }
warn == NamedConstant("LogLevel", <<119, 97, 114, 110>>)

\* Failures: a state mapping and the type (module, name) it was raised with.
FailureOf(state, module, name) ==
    Failure(DictSet(state, typeKey, Class(PyStr(module), PyStr(name))))

\* {message: "boom"} of type app.errors.BoomError
Boom ==
    FailureOf(<< <<(<<109, 101, 115, 115, 97, 103, 101>>), PyStr(<<98, 111, 111, 109>>)>> >>,
              <<97, 112, 112, 46, 101, 114, 114, 111, 114, 115>>,
              <<66, 111, 111, 109, 69, 114, 114, 111, 114>>)
\* A failure with no state but its type, and one with nested state.
Bare == FailureOf(<<>>, <<109>>, <<69>>)
Nested ==
    FailureOf(<< <<(<<115>>), PyList(<<PyStr(<<LF>>), PyInt(7), None>>)>>,
                 <<(<<100>>), PyDict(<< <<(<<110>>), PyBool(FALSE)>> >>)>> >>,
              <<109>>, <<69>>)

SpecialValues == LogLevels \cup {Boom, Bare, Nested}

\* Values no registry predicate matches and JSON has no form for: an
\* object(), a NamedConstant of another container, a class.
UnmatchedValues ==
    { Opaque(1), NamedConstant("Other", <<119, 97, 114, 110>>),
      Class(PyStr(<<109>>), PyStr(<<69>>)) }

NativeValues ==
    { PyStr(<<>>), PyStr(<<97>>), PyStr(<<LF>>), PyStr(<<34, 92, RS, LF>>),
      PyStr(<<233>>), PyInt(0), PyInt(-12), PyBool(TRUE), None,
      PyList(<<PyStr(<<LF>>), PyInt(7)>>),
      PyDict(<< <<(<<110, LF>>), PyStr(<<LF>>)>> >>) }

\* Mappings as json.loads hands them to the object hook.
TagOf(text) == <<classUuidKey, PyStr(text)>>
WarnName == <<levelNameKey, PyStr(<<119, 97, 114, 110>>)>>
TypeInfo == <<typeKey, PyDict(<< <<moduleKey, PyStr(<<109>>)>>, <<nameKey, PyStr(<<69>>)>> >>)>>
UnknownUUIDText == [i \in 1..32 |-> IF i = 32 THEN 49 ELSE 48]

UnknownTagMappings ==
    { PyDict(<<TagOf(UnknownUUIDText)>>),
      PyDict(<<WarnName, TagOf(UnknownUUIDText)>>),
      PyDict(<<TypeInfo, TagOf(UnknownUUIDText)>>),
      PyDict(<<TagOf(<<120>>)>>),
      PyDict(<<WarnName, TagOf(SubSeq(LogLevelUUIDText, 1, 35))>>),
      PyDict(<< <<classUuidKey, PyInt(5)>> >>),
      PyDict(<< <<classUuidKey, None>>, WarnName >>) }

KnownTagMappings ==
    { PyDict(<<WarnName, TagOf(LogLevelUUIDText)>>),
      PyDict(<<TagOf(UUIDStr(classInfo[1].uuid)), WarnName>>),
      PyDict(<< <<levelNameKey, PyStr(<<120>>)>>, TagOf(LogLevelUUIDText) >>),
      PyDict(<<TagOf(LogLevelUUIDText)>>),
      PyDict(<<TypeInfo, TagOf(FailureUUIDText)>>),
      PyDict(<<TagOf(FailureUUIDText)>>) }

UntaggedMappings == { PyDict(<<>>), PyDict(<<WarnName>>), PyDict(<<TypeInfo>>) }

Mappings == UnknownTagMappings \cup KnownTagMappings \cup UntaggedMappings

\* The values of an event's fields.
FieldValues ==
    NativeValues \cup {PyBytes(<<LF, 255>>), warn, Boom}
        \cup {Opaque(1), NamedConstant("Other", <<119, 97, 114, 110>>)}
        \cup {PyDict(<<WarnName, TagOf(UnknownUUIDText)>>)}

\* The names of an event's fields: "a", "k\n", "z".
FieldNames == << <<97>>, <<107, LF>>, <<122>> >>

Events ==
    { PyDict([i \in 1..Len(f) |-> <<FieldNames[i], f[i]>>]) :
          f \in UNION { [1..k -> FieldValues] : k \in 0..MaxFields } }

FramerIdle == OpenLog(<<>>)

InitCodec ==
    /\ FramerIdle
    /\ CredIdle
    /\ \/ phase = "value" /\ subject \in SpecialValues \cup UnmatchedValues
       \/ phase = "mapping" /\ subject \in Mappings
       \/ phase = "event" /\ subject \in Events
    /\ saved = None
    /\ loaded = Ok(None)
    /\ resaved = None

\* objectSaveHook(subject)
SaveObject ==
    /\ phase = "value"
    /\ saved' = objectSaveHook(subject)
    /\ phase' = "saved"
    /\ UNCHANGED <<subject, loaded, resaved>>
    /\ UNCHANGED framerVars
    /\ UNCHANGED credVars

\* objectLoadHook(objectSaveHook(subject))
LoadObject ==
    /\ phase = "saved"
    /\ loaded' = objectLoadHook(saved)
    /\ phase' = "loaded"
    /\ UNCHANGED <<subject, saved, resaved>>
    /\ UNCHANGED framerVars
    /\ UNCHANGED credVars

\* objectSaveHook(objectLoadHook(objectSaveHook(subject)))
ResaveObject ==
    /\ phase = "loaded"
    /\ loaded.err = ""
    /\ resaved' = objectSaveHook(loaded.val)
    /\ phase' = "resaved"
    /\ UNCHANGED <<subject, saved, loaded>>
    /\ UNCHANGED framerVars
    /\ UNCHANGED credVars

\* objectLoadHook(subject) for a mapping
LoadMapping ==
    /\ phase = "mapping"
    /\ loaded' = objectLoadHook(subject)
    /\ phase' = "hooked"
    /\ UNCHANGED <<subject, saved, resaved>>
    /\ UNCHANGED framerVars
    /\ UNCHANGED credVars

\* eventAsJSON(subject)
EncodeEvent ==
    /\ phase = "event"
    /\ saved' = PyStr(eventAsJSON(subject))
    /\ phase' = "encoded"
    /\ UNCHANGED <<subject, loaded, resaved>>
    /\ UNCHANGED framerVars
    /\ UNCHANGED credVars

\* eventFromJSON(eventAsJSON(subject))
DecodeEvent ==
    /\ phase = "encoded"
    /\ loaded' = eventFromJSON(saved)
    /\ phase' = "decoded"
    /\ UNCHANGED <<subject, saved, resaved>>
    /\ UNCHANGED framerVars
    /\ UNCHANGED credVars

NextCodec ==
    \/ SaveObject \/ LoadObject \/ ResaveObject
    \/ LoadMapping
    \/ EncodeEvent \/ DecodeEvent

SpecCodec == InitCodec /\ [][NextCodec]_vars

\* ------------------------------------------------ twisted.cred.checkers
\* bytes.rstrip(): the trailing ASCII whitespace is removed.
IsSpace(c) == c \in {9, 10, 11, 12, 13, 32}

RECURSIVE rstrip(_)
rstrip(line) ==
    IF Len(line) > 0 /\ IsSpace(line[Len(line)])
        THEN rstrip(SubSeq(line, 1, Len(line) - 1))
        ELSE line

\* bytes.lower(): the ASCII capitals become small letters.
lower(text) ==
    [i \in 1..Len(text) |-> IF text[i] >= 65 /\ text[i] <= 90 THEN text[i] + 32 ELSE text[i]]

\* What one line of the file yields: nothing when it has too few fields,
\* else the (username, password) couple, the username in lower case when
\* the database is not case sensitive.
Couple(d, parts) ==
    IF d.ufield >= Len(parts) \/ d.pfield >= Len(parts) THEN <<>>
    ELSE IF d.caseSensitive THEN << <<parts[d.ufield + 1], parts[d.pfield + 1]>> >>
    ELSE << <<lower(parts[d.ufield + 1]), parts[d.pfield + 1]>> >>

RECURSIVE Couples(_, _, _)
\* The couples of the lines from line i on.
Couples(d, lines, i) ==
    IF i > Len(lines) THEN <<>>
    ELSE Couple(d, Split(rstrip(lines[i]), d.delim)) \o Couples(d, lines, i + 1)

\* FilePasswordDB._loadCredentials: a file that cannot be opened is an
\* IOError, reported and turned into UnauthorizedLogin.
loadCredentials(d, f) ==
    IF f.exists /\ f.readable THEN Ok(Couples(d, f.lines, 1))
    ELSE Raise("UnauthorizedLogin")

RECURSIVE DictOf(_, _, _)
\* dict(couples): a later couple replaces an earlier one of the same name.
DictOf(couples, i, items) ==
    IF i > Len(couples) THEN items
    ELSE DictOf(couples, i + 1, DictSet(items, couples[i][1], couples[i][2]))

\* os.path.getmtime(filename)
getmtime(f) == IF f.exists THEN Ok(f.mtime) ELSE Raise("OSError")

\* How getUser ends: the exception it raises ("" for none), the couple it
\* returns, the cache and timestamp it leaves, and whether it ran
\* _loadCredentials.
Got(err, val, cache, timestamp, parsed) ==
    [err |-> err, val |-> val, credCache |-> cache, cacheTimestamp |-> timestamp,
     parsed |-> parsed]

\* return username, self._credCache[username]
FromCache(username, cache, timestamp, parsed) ==
    IF DictHas(cache.items, username)
        THEN Got("", <<username, DictGet(cache.items, username)>>, cache, timestamp, parsed)
        ELSE Got("KeyError", <<>>, cache, timestamp, parsed)

\* self._credCache = dict(self._loadCredentials())
Rebuild(username, couples, cache, timestamp) ==
    IF couples.err # "" THEN Got(couples.err, <<>>, cache, timestamp, TRUE)
    ELSE FromCache(username, [built |-> TRUE, items |-> DictOf(couples.val, 1, <<>>)],
                   timestamp, TRUE)

\* self._cacheTimestamp = os.path.getmtime(self.filename), then the rebuild.
Refresh(d, f, username, mtime, cache, timestamp) ==
    IF mtime.err # "" THEN Got(mtime.err, <<>>, cache, timestamp, FALSE)
    ELSE Rebuild(username, loadCredentials(d, f), cache, mtime.val)

\* A cache refreshed whenever the file is not older than it.
Newer_OrEqual(mtime, timestamp) == mtime >= timestamp

\* os.path.getmtime(self.filename) > self._cacheTimestamp
Newer(mtime, timestamp) == mtime > timestamp

\* The cache branch once a cache has been built.
Cached(d, f, username, mtime, cache, timestamp) ==
    IF mtime.err # "" THEN Got(mtime.err, <<>>, cache, timestamp, FALSE)
    ELSE IF Newer(mtime.val, timestamp)
        THEN Refresh(d, f, username, getmtime(f), cache, timestamp)
    ELSE FromCache(username, cache, timestamp, FALSE)

RECURSIVE FirstMatch(_, _, _)
\* for u, p in self._loadCredentials(): if u == username: return u, p
FirstMatch(couples, username, i) ==
    IF i > Len(couples) THEN Raise("KeyError")
    ELSE IF couples[i][1] = username THEN Ok(couples[i])
    ELSE FirstMatch(couples, username, i + 1)

Found(match, cache, timestamp) ==
    Got(match.err, IF match.err = "" THEN match.val ELSE <<>>, cache, timestamp, TRUE)

\* The branch without a cache.
Uncached(username, couples, cache, timestamp) ==
    IF couples.err # "" THEN Got(couples.err, <<>>, cache, timestamp, TRUE)
    ELSE Found(FirstMatch(couples.val, username, 1), cache, timestamp)

\* A lookup that never folds the case of the name it is given.
Canonical_AsGiven(d, username) == username

\* if not self.caseSensitive: username = username.lower()
Canonical(d, username) == IF d.caseSensitive THEN username ELSE lower(username)

LookUp(d, f, username, cache, timestamp) ==
    IF d.cache
        THEN IF ~cache.built
                 THEN Refresh(d, f, username, getmtime(f), cache, timestamp)
                 ELSE Cached(d, f, username, getmtime(f), cache, timestamp)
        ELSE Uncached(username, loadCredentials(d, f), cache, timestamp)

\* FilePasswordDB.getUser
getUser(d, f, username, cache, timestamp) ==
    LookUp(d, f, Canonical(d, username), cache, timestamp)

\* How requestAvatarId ends: defer.succeed(u), defer.fail(exc) or an
\* exception that leaves the call.
Succeed(u) == [how |-> "succeed", val |-> u, exc |-> ""]
Fail(exc) == [how |-> "fail", val |-> <<>>, exc |-> exc]
Escape(exc) == [how |-> "raise", val |-> <<>>, exc |-> exc]

\* _cbPasswordMatch
cbPasswordMatch(matched, username) ==
    IF matched THEN Succeed(username) ELSE Fail("UnauthorizedLogin")

\* credentials.checkPassword(password): whether the credentials' secret is
\* the stored password.
checkPassword(c, password) == c.password = password

\* The hash function given to the database: "#" + password.
Hash(username, password, stored) == <<35>> \o password

\* The body of requestAvatarId after getUser.
Authenticate(d, c, got) ==
    IF got.err = "KeyError" THEN Fail("UnauthorizedLogin")
    ELSE IF got.err # "" THEN Escape(got.err)
    ELSE IF d.hash
        THEN IF c.plain /\ Hash(c.username, c.password, got.val[2]) = got.val[2]
                 THEN Succeed(got.val[1])
                 ELSE Fail("UnauthorizedLogin")
    ELSE cbPasswordMatch(checkPassword(c, got.val[2]), got.val[1])

\* InMemoryUsernamePasswordDatabaseDontUse.requestAvatarId
InMemoryRequestAvatarId(us, c) ==
    IF DictHas(us, c.username)
        THEN cbPasswordMatch(checkPassword(c, DictGet(us, c.username)), c.username)
        ELSE Fail("UnauthorizedLogin")

\* ---------------------------------------------------- checkers at work
\* Bound of the checker runs: the largest mtime of the credentials file.
MaxMtime == 2

\* Credentials: a username, a secret, and whether they provide
\* IUsernamePassword (else only IUsernameHashedPassword).
Credentials(username, password, plain) ==
    [username |-> username, password |-> password, plain |-> plain]

CredentialsTried ==
    { Credentials(<<97>>, <<115>>, TRUE),        \* a / s
      Credentials(<<97>>, <<116>>, TRUE),        \* a / t
      Credentials(<<65>>, <<115>>, TRUE),        \* A / s
      Credentials(<<65>>, <<116>>, FALSE),       \* A / t, hashed
      Credentials(<<98>>, <<115>>, TRUE),        \* b / s
      Credentials(<<99>>, <<112>>, TRUE),        \* c / p
      Credentials(<<99>>, <<112>>, FALSE),       \* c / p, hashed
      Credentials(<<99>>, <<35, 112>>, TRUE),    \* c / #p
      Credentials(<<115>>, <<97>>, TRUE) }       \* s / a

UsernamesTried == { c.username : c \in CredentialsTried }

\* The lines a credentials file may hold: "a:s", "A:t", "b" (one field),
\* "a:u " (trailing blank), "c:#p" (a hashed password).
LineAS == <<97, 58, 115, LF>>
LineCapAT == <<65, 58, 116, LF>>
LineB == <<98, LF>>
LineAU == <<97, 58, 117, 32, LF>>
LineCP == <<99, 58, 35, 112, LF>>

FileContents ==
    { <<>>, <<LineAS>>, <<LineB, LineAS>>, <<LineCapAT, LineAS>>, <<LineAS, LineAU>>,
      <<LineCP, LineCapAT>> }

\* The states of the credentials file: missing, there but not openable,
\* or readable.
Files ==
    {NoFile}
        \cup { File(TRUE, FALSE, <<LineAS>>, m) : m \in 1..MaxMtime }
        \cup { File(TRUE, TRUE, lines, m) : lines \in FileContents, m \in 1..MaxMtime }

\* FilePasswordDB(filename, b":", usernameField, passwordField,
\*                caseSensitive, hash, cache)
FilePasswordDB(ufield, pfield, caseSensitive, hash, cache) ==
    [kind |-> "file", delim |-> 58, ufield |-> ufield, pfield |-> pfield,
     caseSensitive |-> caseSensitive, hash |-> hash, cache |-> cache]

FileCheckers ==
    { FilePasswordDB(fields[1], fields[2], caseSensitive, hash, cache) :
          fields \in {<<0, 1>>, <<1, 0>>}, caseSensitive \in BOOLEAN,
          hash \in BOOLEAN, cache \in BOOLEAN }

InMemory == [kind |-> "memory"]

InitCred ==
    /\ FramerIdle
    /\ CodecIdle
    /\ \/ /\ db \in FileCheckers
          /\ file \in Files
          /\ users = <<>>
       \/ /\ db = InMemory
          /\ file = NoFile
          /\ users \in { <<>>, << <<(<<97>>), <<115>>>> >> }
    /\ credCache = NoCache
    /\ cacheTimestamp = 0
    /\ call = NoCall

\* The call returns to its caller.
Return(op, c, out, got) ==
    /\ call' = [op |-> op, username |-> c.username, password |-> c.password,
                plain |-> c.plain, how |-> out.how, val |-> out.val, exc |-> out.exc,
                parsed |-> got.parsed]
    /\ credCache' = got.credCache
    /\ cacheTimestamp' = got.cacheTimestamp

\* getUser's own outcome: a couple returned or an exception raised.
Outcome(got) == IF got.err = "" THEN Succeed(got.val) ELSE Escape(got.err)

ReturnUser(c, got) == Return("getUser", c, Outcome(got), got)

\* db.getUser(username)
GetUser ==
    /\ db.kind = "file"
    /\ \E username \in UsernamesTried :
           ReturnUser(Credentials(username, <<>>, TRUE),
                      getUser(db, file, username, credCache, cacheTimestamp))
    /\ UNCHANGED <<db, users, file>>
    /\ UNCHANGED framerVars
    /\ UNCHANGED codecVars

Answer(c, got) == Return("requestAvatarId", c, Authenticate(db, c, got), got)

\* db.requestAvatarId(c) on a FilePasswordDB
RequestAvatarId ==
    /\ db.kind = "file"
    /\ \E c \in CredentialsTried :
           Answer(c, getUser(db, file, c.username, credCache, cacheTimestamp))
    /\ UNCHANGED <<db, users, file>>
    /\ UNCHANGED framerVars
    /\ UNCHANGED codecVars

\* db.requestAvatarId(c) on an InMemoryUsernamePasswordDatabaseDontUse
RequestAvatarIdInMemory ==
    /\ db.kind = "memory"
    /\ \E c \in CredentialsTried :
           Return("requestAvatarId", c, InMemoryRequestAvatarId(users, c),
                  Got("", <<>>, credCache, cacheTimestamp, FALSE))
    /\ UNCHANGED <<db, users, file>>
    /\ UNCHANGED framerVars
    /\ UNCHANGED codecVars

\* db.addUser(username, password)
AddUser ==
    /\ db.kind = "memory"
    /\ \E c \in CredentialsTried : users' = DictSet(users, c.username, c.password)
    /\ users' # users
    /\ call' = NoCall
    /\ UNCHANGED <<db, file, credCache, cacheTimestamp>>
    /\ UNCHANGED framerVars
    /\ UNCHANGED codecVars

\* Something outside the checker writes, replaces, removes or protects the
\* credentials file; its mtime may move either way or stay.
ModifyFile ==
    /\ db.kind = "file"
    /\ file' \in Files
    /\ file' # file
    /\ call' = NoCall
    /\ UNCHANGED <<db, users, credCache, cacheTimestamp>>
    /\ UNCHANGED framerVars
    /\ UNCHANGED codecVars

NextCred ==
    \/ GetUser \/ RequestAvatarId \/ RequestAvatarIdInMemory
    \/ AddUser \/ ModifyFile

SpecCred == InitCred /\ [][NextCred]_vars

\* ------------------------------------------- a caching checker's reloads
\* The FilePasswordDB instances built with cache=True.
CachingCheckers == { d \in FileCheckers : d.cache }

\* A credentials file that stays in place: any contents, openable or not.
FilesPresent ==
    { File(TRUE, readable, lines, m) :
          readable \in BOOLEAN, lines \in FileContents, m \in 1..MaxMtime }

InitReload ==
    /\ FramerIdle
    /\ CodecIdle
    /\ db \in CachingCheckers
    /\ file \in FilesPresent
    /\ users = <<>>
    /\ credCache = NoCache
    /\ cacheTimestamp = 0
    /\ call = NoCall

\* The file is rewritten: other contents, and a strictly greater mtime.
WriteFile ==
    /\ \E lines \in FileContents, m \in 1..MaxMtime :
           /\ lines # file.lines
           /\ m > file.mtime
           /\ file' = File(TRUE, file.readable, lines, m)
    /\ call' = NoCall
    /\ UNCHANGED <<db, users, credCache, cacheTimestamp>>
    /\ UNCHANGED framerVars
    /\ UNCHANGED codecVars

\* open(self.filename, "rb") starts or stops failing with IOError (the
\* file's permissions, the process's descriptors): neither the contents
\* nor the mtime of the file change.
ChangeAccess ==
    /\ file' = [file EXCEPT !.readable = ~file.readable]
    /\ call' = NoCall
    /\ UNCHANGED <<db, users, credCache, cacheTimestamp>>
    /\ UNCHANGED framerVars
    /\ UNCHANGED codecVars

NextReload ==
    \/ GetUser \/ RequestAvatarId
    \/ WriteFile \/ ChangeAccess

SpecReload == InitReload /\ [][NextReload]_vars

\* =============================================================== claims
AllWellFormed == \A i \in 1..Len(written) : WellFormed(written[i])

\* C1: a well-formed multi-record stream delivered as two non-empty reads
\* and then an empty read yields the same sequence of events as the same
\* stream delivered in one read and then an empty read.
C1_ChunkingIndependence ==
    (pc = "Exhausted" /\ nreads = 2 /\ Len(written) >= 2 /\ AllWellFormed)
        => events = Iterate(NewFrame, <<PyStr(source)>>, 1).events

C1_Witness ==
    /\ pc = "Exhausted" /\ nreads = 2 /\ Len(written) >= 2 /\ AllWellFormed
    /\ Len(events) = Len(written)
    /\ events = EventsOf(written, 1)

\* C2: of three LF-terminated records of which the middle one is not valid
\* JSON, exactly the two valid events are yielded, in stream order, and
\* exactly one record is reported, whatever the chunking.
CorruptInTheMiddle ==
    /\ Len(written) = 3
    /\ WellFormed(written[1])
    /\ written[2].kind = "corrupt"
    /\ WellFormed(written[3])

C2_CorruptRecordSkipped ==
    (pc = "Exhausted" /\ CorruptInTheMiddle)
        => /\ events = <<written[1].event, written[3].event>>
           /\ errors = <<Tail(written[2].text)>>
           /\ raised = ""

C2_Witness ==
    /\ pc = "Exhausted" /\ CorruptInTheMiddle /\ nreads >= 2
    /\ Len(events) = 2 /\ Len(errors) = 1

\* C3: a record of well-formed JSON with an unknown type tag is reported
\* and skipped, and every valid record of the stream is still yielded: the
\* sequence is not ended by it.
C3_UnknownTagSkipped ==
    pc = "Exhausted"
        => /\ raised = ""
           /\ events = EventsOf(written, 1)
           /\ Len(errors) = Cardinality({i \in 1..Len(written) :
                                            written[i].kind = "unknownTag"})

RECURSIVE UsesReservedKey(_)
\* Whether a mapping of the value, at any depth, has the key __class_uuid__.
UsesReservedKey(value) ==
    CASE value.t = "dict" ->
            \/ DictHas(value.v, classUuidKey)
            \/ \E i \in 1..Len(value.v) : UsesReservedKey(value.v[i][2])
      [] value.t = "list" -> \E i \in 1..Len(value.v) : UsesReservedKey(value.v[i])
      [] OTHER -> FALSE

\* C4 as stated: the records the observer writes for any events E1..En of
\* native values are read back, under any chunking, as exactly E1..En.
C4_RoundTripAnyEvents ==
    pc = "Exhausted" => events = EventsOf(written, 1)

\* C4, amended: the same for events in which no mapping has the reserved
\* key __class_uuid__; and eventFromJSON(eventAsJSON(E)) = E for each.
C4_RoundTripUnreserved ==
    (pc = "Exhausted" /\ \A i \in 1..Len(written) : ~UsesReservedKey(written[i].event))
        => /\ events = EventsOf(written, 1)
           /\ errors = <<>>
           /\ raised = ""
           /\ \A i \in 1..Len(written) :
                  eventFromJSON(PyStr(eventAsJSON(written[i].event)))
                      = Ok(written[i].event)

C4_Witness ==
    /\ pc = "Exhausted" /\ nreads >= 2 /\ Len(written) = 2
    /\ written[1].event = EventB
    /\ events = <<EventB, written[2].event>>
    /\ ~UsesReservedKey(written[2].event)

\* C10: every turn of the loop consumes input or finishes the generator,
\* so the sequence is finite; the first empty read finishes it; and once
\* finished it reads nothing and yields nothing more.
C10_TerminatesAtEndOfData ==
    [][/\ pos' > pos \/ pc' = "Exhausted"
       /\ pos' <= Len(source)
       /\ lastRead' = "empty" => pc' = "Exhausted"
       /\ pc = "Exhausted" => UNCHANGED vars]_vars

C10_Witness ==
    /\ pc = "Exhausted" /\ lastRead = "empty" /\ raised = ""
    /\ Len(events) >= 2

\* C11: a source whose reads return the UTF-8 bytes of a stream yields the
\* events a text source yields for the same stream: the bytes are appended
\* to the buffer as they are, and no exception ends the generator.
C11_BytesSourceSameEvents ==
    (pc = "Exhausted" /\ sourceKind = "bytes")
        => /\ raised = ""
           /\ events = Iterate(NewFrame, <<PyStr(ConcatText(written, 1))>>, 1).events

NonEmptyPieces(data) == SelectSeq(Split(data, RS), LAMBDA piece : piece # <<>>)

\* C18: every non-empty piece of the stream has yielded one event or been
\* reported once; none is dropped without a trace.
C18_NoPieceDroppedSilently ==
    (pc = "Exhausted" /\ raised = "")
        => Len(events) + Len(errors) = Len(NonEmptyPieces(EncodeUTF8(source)))

\* The stream from its first record separator on.
FromFirstSeparator(data) == SubSeq(data, NextSeparator(data, RS, 1), Len(data))

\* C19: what precedes the first record separator of the stream yields no
\* event: the events are those of the stream from that separator on, and
\* a stream without a separator yields none.
C19_NoEventBeforeFirstSeparator ==
    (pc = "Exhausted" /\ raised = "")
        => events = Iterate(NewFrame, <<PyStr(FromFirstSeparator(source))>>, 1).events

RECURSIVE AfterLastSeparator(_, _)
\* The part of data after its last record separator at or before position
\* i, all of it when there is none.
AfterLastSeparator(data, i) ==
    IF i = 0 THEN data
    ELSE IF data[i] = RS THEN SubSeq(data, i + 1, Len(data))
    ELSE AfterLastSeparator(data, i - 1)

\* What has been read so far, as bytes.
ReadSoFar == EncodeUTF8(SubSeq(source, 1, pos))

\* C20: after every non-empty read the buffer holds no record separator
\* and is what has been read since the last one (all that has been read
\* when there was none); what came before has been consumed once: the
\* events and reports are those of its pieces, one pass over them.
C20_BufferIsUnconsumedRemainder ==
    (pc = "AwaitingData" /\ lastRead = "data")
        => /\ \A i \in 1..Len(buffer) : buffer[i] # RS
           /\ buffer = AfterLastSeparator(ReadSoFar, Len(ReadSoFar))
           /\ events = YieldFromRecords(NewFrame, Split(ReadSoFar, RS), 1).events
           /\ errors = YieldFromRecords(NewFrame, Split(ReadSoFar, RS), 1).errors

C20_Witness ==
    /\ pc = "AwaitingData" /\ lastRead = "data" /\ nreads >= 2
    /\ Len(written) = 2 /\ written[2].kind = "corrupt"
    /\ Len(events) = 1
    /\ Len(buffer) > 0 /\ Len(buffer) < pos

\* --------------------------------------------------------- codec claims
\* C5: the text eventAsJSON returns has no raw line feed, whatever line
\* feeds the event's texts, keys and byte strings hold, nested or not.
C5_NoRawLineFeed ==
    phase \in {"encoded", "decoded"}
        => \A i \in 1..Len(saved.v) : saved.v[i] # LF

C5_Witness ==
    /\ phase = "encoded"
    /\ Len(subject.v) = 2
    /\ subject.v[1][2] = PyDict(<< <<(<<110, LF>>), PyStr(<<LF>>)>> >>)
    /\ subject.v[2][1] = <<107, LF>>
    /\ subject.v[2][2] = PyBytes(<<LF, 255>>)

IsSpecial(value) == isLogLevel(value) \/ isFailure(value)

\* C6: decoding the encoding of a registered special value gives a value
\* equal to it: the same LogLevel constant, a Failure with the same state
\* and a type of the same module and name.
C6_SpecialValueRoundTrip ==
    (phase = "loaded" /\ IsSpecial(subject)) => loaded = Ok(subject)

\* C7: a special value, saved, loaded and saved again, is saved as it was
\* the first time: the same fields and the same type tag.
C7_SaveLoadSaveFixedPoint ==
    (phase = "resaved" /\ IsSpecial(subject)) => resaved = saved

C7_Witness ==
    /\ phase = "resaved"
    /\ subject = Boom
    /\ resaved = saved
    /\ DictHas(saved.v, classUuidKey)

\* Whether a mapping carries a type tag that no entry of the registry has.
TagAbsent(mapping) ==
    /\ mapping.t = "dict"
    /\ DictHas(mapping.v, classUuidKey)
    /\ LET tag == DictGet(mapping.v, classUuidKey)
       IN  \/ tag.t # "str"
           \/ UUID(tag).err # ""
           \/ \A i \in 1..Len(classInfo) : classInfo[i].uuid # UUID(tag).val

\* C8: decoding a mapping whose type tag is absent from the registry fails
\* with an error, in the hook and in eventFromJSON: the mapping is not
\* returned as it is and no variant's decoder is applied to it.
C8_UnknownTagFails ==
    /\ (phase = "hooked" /\ TagAbsent(subject)) => loaded.err # ""
    /\ (phase = "decoded" /\ \E i \in 1..Len(subject.v) : TagAbsent(subject.v[i][2]))
           => loaded.err # ""

C8_Witness ==
    /\ phase = "hooked"
    /\ subject = PyDict(<<WarnName, TagOf(UnknownUUIDText)>>)
    /\ loaded.err = "KeyError"

\* Whether a value is neither native to JSON (or a byte string) nor matched
\* by a predicate of the registry.
IsUnmatched(value) ==
    /\ value.t \notin {"str", "int", "bool", "null", "list", "dict", "bytes"}
    /\ ~IsSpecial(value)

Marker == PyDict(<< <<(<<117, 110, 112, 101, 114, 115, 105, 115, 116, 97, 98, 108, 101>>),
                      PyBool(TRUE)>> >>)

\* The event with the marker in the place of its unmatched fields.
WithMarkers(event) ==
    PyDict([i \in 1..Len(event.v) |->
               IF IsUnmatched(event.v[i][2]) THEN <<event.v[i][1], Marker>>
               ELSE event.v[i]])

\* C9: objectSaveHook gives exactly {"unpersistable": true} for a value no
\* predicate matches, and an event with such a field is encoded as the same
\* event with the marker in its place: the other fields are as they would be.
C9_UnpersistableMarker ==
    /\ (phase \in {"saved", "loaded", "resaved"} /\ IsUnmatched(subject))
           => saved = Marker
    /\ (phase = "encoded" /\ \E i \in 1..Len(subject.v) : IsUnmatched(subject.v[i][2]))
           => saved = PyStr(eventAsJSON(WithMarkers(subject)))

C9_Witness ==
    /\ phase = "encoded"
    /\ Len(subject.v) = 2
    /\ subject.v[1][2] = Opaque(1)
    /\ subject.v[2][2] = PyStr(<<34, 92, RS, LF>>)
    /\ saved = PyStr(eventAsJSON(WithMarkers(subject)))

\* C17: what objectLoadHook makes of a mapping with the type tag does not
\* hold the tag in its state, the tag being removed before the loader is
\* called; a mapping without the tag is returned as it is.
C17_TagRemovedBeforeDispatch ==
    (phase \in {"loaded", "hooked"} /\ loaded.err = "")
        => /\ loaded.val.t = "Failure" => ~DictHas(loaded.val.v, classUuidKey)
           /\ (phase = "hooked" /\ ~DictHas(subject.v, classUuidKey))
                  => loaded.val = subject

\* ------------------------------------------------------- checker claims
\* C12: requestAvatarId of a FilePasswordDB, cached or not, ends every
\* authentication failure (no such user, wrong password, wrong hash, file
\* missing or unreadable) with UnauthorizedLogin; no other exception
\* leaves the call.
C12_FailuresAreUnauthorizedLogin ==
    (call.op = "requestAvatarId" /\ db.kind = "file" /\ call.how # "succeed")
        => call.exc = "UnauthorizedLogin"

\* The couples of the store the checker answers from: the users of the
\* in-memory database, the cache of a caching FilePasswordDB, the lines of
\* the file otherwise.
Store ==
    IF db.kind = "memory" THEN users
    ELSE IF db.cache THEN credCache.items
    ELSE IF file.exists /\ file.readable THEN Couples(db, file.lines, 1)
    ELSE <<>>

\* Whether the credentials of the last call match the couple.
Matched(couple) ==
    IF db.kind = "file" /\ db.hash
        THEN call.plain /\ Hash(call.username, call.password, couple[2]) = couple[2]
        ELSE call.password = couple[2]

\* C13: requestAvatarId succeeds with u only if u is a username of the
\* store and the credentials matched its stored secret; in every other
\* case it ends with UnauthorizedLogin.
C13_SuccessOnlyIfMatched ==
    call.op = "requestAvatarId"
        => /\ call.how = "succeed"
                => \E i \in 1..Len(Store) : Store[i][1] = call.val /\ Matched(Store[i])
           /\ call.how # "succeed" => call.exc = "UnauthorizedLogin"

\* The fields of a line, and the name in the form the database compares.
Fields(line) == Split(rstrip(line), db.delim)
Folded(name) == IF db.caseSensitive THEN name ELSE lower(name)

\* Whether line i of the file has both fields and is of the name looked up.
LineMatches(i) ==
    /\ db.ufield < Len(Fields(file.lines[i]))
    /\ db.pfield < Len(Fields(file.lines[i]))
    /\ Folded(Fields(file.lines[i])[db.ufield + 1]) = Folded(call.username)

FirstMatching ==
    CHOOSE i \in 1..Len(file.lines) :
        LineMatches(i) /\ \A j \in 1..(i - 1) : ~LineMatches(j)

\* C14: without a cache getUser returns the username and password fields
\* of the first line of the name (compared and returned in lower case when
\* the database is not case sensitive), lines with too few fields being
\* skipped; it raises KeyError when there is no such line.
C14_GetUserFirstMatch ==
    (call.op = "getUser" /\ ~db.cache /\ file.exists /\ file.readable)
        => IF \E i \in 1..Len(file.lines) : LineMatches(i)
               THEN /\ call.how = "succeed"
                    /\ call.val = <<Folded(Fields(file.lines[FirstMatching])[db.ufield + 1]),
                                    Fields(file.lines[FirstMatching])[db.pfield + 1]>>
               ELSE call.how = "raise" /\ call.exc = "KeyError"

C14_Witness ==
    /\ call.op = "getUser" /\ ~db.cache /\ ~db.caseSensitive
    /\ db.ufield = 0
    /\ file.readable /\ file.lines = <<LineB, LineAS>>
    /\ call.username = <<65>>
    /\ call.val = << <<97>>, <<115>> >>

\* C15: a lookup of a caching FilePasswordDB runs _loadCredentials only if
\* no cache has been built or the file's mtime is greater than the recorded
\* timestamp; when a cache is built and the mtime is not greater, the
\* lookup leaves the cache as it is and answers from it.
C15_ReparseOnlyWhenStale ==
    [][(call'.op # "none" /\ db.kind = "file" /\ db.cache)
          => /\ call'.parsed
                  => (~credCache.built \/ (file.exists /\ file.mtime > cacheTimestamp))
             /\ (credCache.built /\ file.exists /\ file.mtime <= cacheTimestamp)
                  => /\ ~call'.parsed
                     /\ credCache' = credCache
                     /\ cacheTimestamp' = cacheTimestamp
                     /\ call'.op = "getUser"
                          => IF DictHas(credCache.items, Folded(call'.username))
                                 THEN call'.val = <<Folded(call'.username),
                                                    DictGet(credCache.items,
                                                            Folded(call'.username))>>
                                 ELSE call'.exc = "KeyError"]_vars

C15_Witness ==
    /\ call.op = "getUser" /\ db.cache /\ credCache.built
    /\ ~call.parsed /\ call.how = "succeed"
    /\ file.readable /\ file.lines = <<>> /\ file.mtime = cacheTimestamp

\* What the same lookup answers on the same file without a cache.
WithoutCache ==
    Outcome(getUser([db EXCEPT !.cache = FALSE], file, call.username, NoCache, 0))

\* C21: a getUser that has just built its cache from the file answers as
\* getUser without a cache does on that file: the same couple or the same
\* KeyError, whatever the lines of the file, repeated usernames included.
C21_CacheSameAsUncached ==
    (call.op = "getUser" /\ db.cache /\ call.parsed /\ file.exists /\ file.readable)
        => /\ call.how = WithoutCache.how
           /\ call.val = WithoutCache.val
           /\ call.exc = WithoutCache.exc

\* What a lookup of the same name answers from a cache built from the
\* file as it is now.
FromCurrentContents ==
    Outcome(getUser(db, file, call.username, NoCache, 0))

\* C22: when a caching checker's reload fails with UnauthorizedLogin the
\* recorded timestamp stays behind the file's mtime, the cache still
\* holding older contents; and a lookup made while the file can be read
\* answers from the file's current contents, never from older entries
\* (every rewrite of the file strictly increasing its mtime).
C22_FailedReloadKeepsCacheConsistent ==
    /\ (call.how = "raise" /\ call.exc = "UnauthorizedLogin" /\ credCache.built)
           => cacheTimestamp < file.mtime
    /\ (call.op = "getUser" /\ file.readable)
           => /\ call.how = FromCurrentContents.how
              /\ call.val = FromCurrentContents.val
              /\ call.exc = FromCurrentContents.exc
====
